---- MODULE Spec2Model ----
(***************************************************************************)
(* The user directory page: a search input whose text is written to the    *)
(* URL parameter `search` by a debounced callback, a page that derives the  *)
(* fetch parameters from that URL parameter, a cached query (useGetUsers)   *)
(* over the server action getUsers, and the four-way rendering of Home.     *)
(*                                                                         *)
(* Times are milliseconds.  Query ages and the debounce timers are kept as *)
(* elapsed times (now - dataUpdatedAt, now - lastCallTime) instead of      *)
(* absolute readings of the clock.                                         *)
(***************************************************************************)
EXTENDS Integers, Sequences, FiniteSets, TLC

-----------------------------------------------------------------------------
(* Bounds of the model *)

\* the number of clock advances in one behaviour
MaxTicks == 3

\* the number of timers of unmounted Search instances still running when the
\* page is left again
MaxDead == 1

-----------------------------------------------------------------------------
(* Values *)

\* "no such URL parameter": URLSearchParams.get returns null
Absent == "<absent>"

\* the texts the user can have in the input
Texts == {"", "zz"}

\* the records the remote endpoint holds (id, name)
Directory == << [id |-> 1, name |-> "Leanne"], [id |-> 2, name |-> "Ervin"] >>

\* the status texts the endpoint can answer with
StatusTexts == {"OK", "Not Found"}

\* the bodies a response can have: a JSON array, or text that is no JSON
AllBodies == {"json", "malformed"}

\* the bodies the endpoint answers with: JSON arrays
Bodies == {"json"}

Min(a, b) == IF a < b THEN a ELSE b

-----------------------------------------------------------------------------
(* Constants of the program *)

\* search.tsx: useDebouncedCallback(..., 300)
Wait == 300

\* useGetUsers: staleTime: 1000 * 60 * 5
staleTime == 1000 * 60 * 5

\* query-provider.tsx: new QueryClient() with no defaultOptions: a failed
\* query function is called again up to 3 times before the query errors
retry == 3

\* the steps the clock advances by, besides a step to the next timer expiry
TickSteps == {Wait \div 2, staleTime - Wait \div 2}

-----------------------------------------------------------------------------
VARIABLES
    API_URL,    \* process.env.API_URL of the server: a URL, or not set
    url,        \* the current history entry: [pathname, search, page]
    entries,    \* the number of entries of the tab's navigation history
    mounted,    \* Home (and the Search inside it) is mounted
    inputValue, \* the DOM value of the uncontrolled <input name='search'>
    debounce,   \* the debounced handleSearch of the mounted Search
    dead,       \* timers left running by unmounted Search instances
    cache,      \* the QueryClient's cache: filter text -> query state
    inflight,   \* filter text -> the getUsers call in flight for that query
    prev,       \* the observer's last query with defined data
    writes,     \* router.replace calls since the last keystroke (history)
    typed,      \* a keystroke happened since Search mounted (history)
    ticks       \* clock advances so far

vars == << API_URL, url, entries, mounted, inputValue, debounce, dead, cache, inflight, prev,
           writes, typed, ticks >>

-----------------------------------------------------------------------------
(* The URL and the Search control                                          *)

\* no arguments pending in the debounced callback (lastArgs = null)
NoArgs == "<none>"

\* a Page that passes no filter on
PageNoSearch(u) == ""

\* Page: const search = searchParams?.search || ''
Page(u) == IF u.search = Absent THEN "" ELSE u.search

\* a Search whose input always starts out empty
defaultValueEmpty(u) == ""

\* Search: defaultValue={search || ''}, search = searchParams.get('search')
defaultValue(u) == IF u.search = Absent THEN "" ELSE u.search

\* the pathname of the page and the values of `page`, a URL parameter the
\* page does not read
Pathname == "/"
Pages == {Absent, "2"}

\* the URLs the page can have: any `search` and `page`
Urls == [pathname : {Pathname}, search : Texts \cup {Absent}, page : Pages]

\* the URLs the page is opened with: / and /?search=zz&page=2
InitialUrls ==
    {[pathname |-> Pathname, search |-> Absent, page |-> Absent],
     [pathname |-> Pathname, search |-> "zz", page |-> "2"]}

\* a handleSearch that starts from empty parameters: new URLSearchParams()
handleSearchFromEmpty(u, search) ==
    [pathname |-> u.pathname,
     search |-> IF search # "" THEN search ELSE Absent,
     page |-> Absent]

\* handleSearch that always sets the parameter, also to the empty text
handleSearchAlwaysSet(u, search) == [u EXCEPT !.search = search]

\* the body of handleSearch: copy the current parameters, set or delete
\* `search`, and replace the history entry by pathname?params
handleSearch(u, search) ==
    [u EXCEPT !.search = IF search # "" THEN search ELSE Absent]

\* a Search instance's debounced callback before its first call
NewDebounce == [timer |-> FALSE, left |-> 0, lastArgs |-> NoArgs, sinceCall |-> Wait]

\* a call of the debounced callback (onChange): the arguments and the time of
\* the call are kept, and the timer is started if none is running
callDebounced(d, arg) ==
    [timer |-> TRUE,
     left |-> IF d.timer THEN d.left ELSE Wait,
     lastArgs |-> arg,
     sinceCall |-> 0]

\* a debounce that invokes on the first expiry of its timer
shouldInvokeOnExpiry(d, isMounted) == isMounted

\* a debounce that does not look at whether its component is mounted
shouldInvokeUnmounted(d, isMounted) == d.sinceCall >= Wait

\* the timer invokes the callback only on a mounted instance and only once
\* the wait has passed since the last call
shouldInvoke(d, isMounted) == isMounted /\ d.sinceCall >= Wait

\* time passing for a debounced callback
elapse(d, ms) ==
    [d EXCEPT !.left = IF d.timer THEN @ - ms ELSE @,
              !.sinceCall = Min(Wait, @ + ms)]

-----------------------------------------------------------------------------
(* getUsers and the remote endpoint                                        *)

\* an error without a cause
NoCause == "<no cause>"

NoError == [kind |-> "none", cause |-> NoCause]

\* the endpoint's JSON array for a request: every record, or those whose name
\* is the `name` parameter
Endpoint(nameParam) ==
    SelectSeq(Directory, LAMBDA u : nameParam = Absent \/ u.name = nameParam)

\* README: API_URL=https://jsonplaceholder.typicode.com/users
BaseUrl == "https://jsonplaceholder.typicode.com/users"

\* a getUsers that appends `name` whatever the text
getUsersRequestAlwaysName(name) ==
    [active |-> TRUE, threw |-> FALSE, nameParam |-> name, attempts |-> 1,
     calls |-> 1]

\* a getUsers that falls back to a base URL of its own when API_URL is not set
getUsersRequestDefaultUrl(name) ==
    [active |-> TRUE, threw |-> FALSE,
     nameParam |-> IF name # "" THEN name ELSE Absent,
     attempts |-> 1, calls |-> 1]

\* getUsers up to its fetch: new URL(process.env.API_URL) throws when API_URL
\* is not set, and no request is sent; otherwise the URL gets `name` only
\* for a non-empty text, and one GET request is sent
getUsersRequest(name) ==
    IF API_URL = Absent
    THEN [active |-> TRUE, threw |-> TRUE, nameParam |-> Absent,
          attempts |-> 0, calls |-> 1]
    ELSE [active |-> TRUE, threw |-> FALSE,
          nameParam |-> IF name # "" THEN name ELSE Absent,
          attempts |-> 1, calls |-> 1]

\* no getUsers call in flight; `calls` counts the calls in flight
NoRequest ==
    [active |-> FALSE, threw |-> FALSE, nameParam |-> Absent, attempts |-> 0,
     calls |-> 0]

\* getUsers when new URL(...) threw: the TypeError rejects the call
getUsersThrew ==
    [settled |-> TRUE, ok |-> FALSE, data |-> << >>,
     error |-> [kind |-> "url", cause |-> NoCause]]

\* a getUsers that sends its request again after a status text other than "OK"
getUsersResponseRetrying(req, statusText, body) ==
    IF statusText # "OK"
    THEN [settled |-> req.attempts >= 2, ok |-> FALSE, data |-> << >>,
          error |-> [kind |-> "fetch", cause |-> statusText]]
    ELSE [settled |-> TRUE, ok |-> TRUE, data |-> Endpoint(req.nameParam),
          error |-> [kind |-> "none", cause |-> "<no cause>"]]

\* getUsers from the response on: a status text other than "OK" throws an
\* Error with that text as cause, response.json() throws on a body that is no
\* JSON, and otherwise the parsed body is returned
getUsersResponse(req, statusText, body) ==
    IF statusText # "OK"
    THEN [settled |-> TRUE, ok |-> FALSE, data |-> << >>,
          error |-> [kind |-> "fetch", cause |-> statusText]]
    ELSE IF body = "malformed"
    THEN [settled |-> TRUE, ok |-> FALSE, data |-> << >>,
          error |-> [kind |-> "parse", cause |-> NoCause]]
    ELSE [settled |-> TRUE, ok |-> TRUE, data |-> Endpoint(req.nameParam),
          error |-> NoError]

-----------------------------------------------------------------------------
(* useGetUsers: the cached query                                           *)

\* a useGetUsers whose query key leaves the parameters out: ['users']
queryKeyShared(name) == ""

\* queryKey: ['users', params]: one query for each value of params.name
queryKey(name) == name

\* a query as the cache builds it: no data, nothing fetching
NewQuery ==
    [status |-> "pending", hasData |-> FALSE, data |-> << >>, age |-> 0,
     fetching |-> FALSE, failureCount |-> 0, error |-> NoError]

\* a query without staleTime: its data is stale at once
isStaleAtOnce(q) == TRUE

\* staleTime: data is fresh while less than staleTime has passed since it
\* was written; a query without data is stale
isStale(q) == ~q.hasData \/ q.age >= staleTime

\* the start of a fetch: the failure count is reset, and a query without
\* data goes back to pending and drops its error
fetchState(q) ==
    [q EXCEPT !.fetching = TRUE,
              !.failureCount = 0,
              !.status = IF q.hasData THEN @ ELSE "pending",
              !.error = IF q.hasData THEN @ ELSE NoError]

\* a query that starts a fetch of its own next to the one that is running
shouldFetchAgain(q) == isStale(q)

\* the observer turns to query k (mount, or a new query key): a fetch that
\* is running is joined, a stale query is fetched, a fresh one is left alone
shouldFetch(q) == ~q.fetching /\ isStale(q)

observe(c, k) == IF shouldFetch(c[k]) THEN [c EXCEPT ![k] = fetchState(@)] ELSE c

\* the query function, getUsers(params), is called for a fetch that starts:
\* one more getUsers call is in flight for the query of params
request(c, f, name) ==
    LET k == queryKey(name)
    IN  IF shouldFetch(c[k])
        THEN [f EXCEPT
                ![k] = [getUsersRequest(name) EXCEPT !.calls = f[k].calls + 1]]
        ELSE f

NoPrev == [has |-> FALSE, data |-> << >>]

\* an observer without placeholderData
lastQueryWithDefinedDataNone(p, q) == [has |-> FALSE, data |-> << >>]

\* the observer remembers the last query it saw with defined data
lastQueryWithDefinedData(p, q) ==
    IF q.hasData THEN [has |-> TRUE, data |-> q.data] ELSE p

\* the query function resolved
setData(q, data) ==
    [q EXCEPT !.status = "success", !.hasData = TRUE, !.data = data, !.age = 0,
              !.fetching = FALSE, !.failureCount = 0, !.error = NoError]

\* a query whose function is called again without limit (retry: true)
shouldRetryAlways(q, observed) == observed

\* the query function threw: it is called again while fewer than `retry`
\* calls have failed and the query is observed
shouldRetry(q, observed) == observed /\ q.failureCount < retry

setError(q, err) ==
    [q EXCEPT !.status = "error", !.error = err, !.fetching = FALSE,
              !.failureCount = Min(retry + 1, @ + 1)]

\* useQuery's result for query q: placeholderData: keepPreviousData stands
\* in for the data of a pending query without data, and the result then
\* counts as a success
useGetUsers(q, p) ==
    LET placeholder == ~q.hasData /\ q.status = "pending" /\ p.has
        status == IF placeholder THEN "success" ELSE q.status
    IN  [status |-> status,
         hasData |-> placeholder \/ q.hasData,
         data |-> IF placeholder THEN p.data ELSE q.data,
         isFetching |-> q.fetching,
         isLoading |-> q.fetching /\ status = "pending",
         isError |-> status = "error",
         isPlaceholderData |-> placeholder]

-----------------------------------------------------------------------------
(* Home: what is rendered                                                  *)

row(user) == [key |-> user.id, text |-> user.name]

\* a Home that lists the records last to first
rowsReversed(users) == [i \in 1..Len(users) |-> row(users[Len(users) + 1 - i])]

\* users.map(user => <div key={user.id}><span>{user.name}</span></div>)
rows(users) == [i \in 1..Len(users) |-> row(users[i])]

\* a Home that looks at isError before isLoading
HomeErrorFirst(r) ==
    IF r.isError THEN [kind |-> "error", rows |-> << >>]
    ELSE IF r.isLoading THEN [kind |-> "loading", rows |-> << >>]
    ELSE IF r.hasData /\ Len(r.data) > 0
    THEN [kind |-> "list", rows |-> rows(r.data)]
    ELSE [kind |-> "empty", rows |-> << >>]

\* isLoading ? ... : isError ? ... : users?.length ? users.map(...) : ...
Home(r) ==
    IF r.isLoading THEN [kind |-> "loading", rows |-> << >>]
    ELSE IF r.isError THEN [kind |-> "error", rows |-> << >>]
    ELSE IF r.hasData /\ Len(r.data) > 0
    THEN [kind |-> "list", rows |-> rows(r.data)]
    ELSE [kind |-> "empty", rows |-> << >>]

\* the filter the mounted page fetches with: useGetUsers({ name: props.search })
params == Page(url)

result == useGetUsers(cache[queryKey(params)], prev)

view == Home(result)

-----------------------------------------------------------------------------
(* Operations                                                              *)

\* the expiry of a debounce timer: invoke the callback with the last
\* arguments, give up on an unmounted instance, or wait for the rest of the
\* time since the last call
timerExpired(d, isMounted) ==
    IF shouldInvoke(d, isMounted)
    THEN [next |-> [d EXCEPT !.timer = FALSE, !.left = 0, !.lastArgs = NoArgs],
          invoke |-> d.lastArgs # NoArgs, args |-> d.lastArgs]
    ELSE IF ~isMounted
    THEN [next |-> [d EXCEPT !.timer = FALSE, !.left = 0],
          invoke |-> FALSE, args |-> NoArgs]
    ELSE [next |-> [d EXCEPT !.left = Wait - d.sinceCall],
          invoke |-> FALSE, args |-> NoArgs]

\* a router that pushes the new URL as one more history entry (router.push)
pushEntry(n) == n + 1

\* router.replace: the new URL takes the place of the current history entry
replaceEntry(n) == n

\* router.replace(pathname?params) and the render that follows it: Page
\* passes the new `search` to Home, whose observer turns to the new query
replace(search) ==
    LET u == handleSearch(url, search)
        k == Page(u)
        turns == mounted /\ queryKey(k) # queryKey(params)
        c == IF turns THEN observe(cache, queryKey(k)) ELSE cache
    IN  /\ url' = u
        /\ entries' = replaceEntry(entries)
        /\ writes' = Min(2, writes + 1)
        /\ cache' = c
        /\ inflight' = IF turns THEN request(cache, inflight, k) ELSE inflight
        /\ prev' = IF mounted
                   THEN lastQueryWithDefinedData(prev, c[queryKey(k)]) ELSE prev

Init ==
    /\ API_URL \in {BaseUrl, Absent}
    /\ url \in InitialUrls
    /\ entries = 1
    /\ mounted = TRUE
    /\ inputValue = defaultValue(url)
    /\ debounce = NewDebounce
    /\ dead = {}
    /\ cache = observe([k \in Texts |-> NewQuery], queryKey(Page(url)))
    /\ inflight = request([k \in Texts |-> NewQuery],
                          [k \in Texts |-> NoRequest], Page(url))
    /\ prev = NoPrev
    /\ writes = 0
    /\ typed = FALSE
    /\ ticks = 0

\* onChange={e => handleSearch(e.target.value)}
Keystroke(text) ==
    /\ mounted
    /\ text # inputValue
    /\ inputValue' = text
    /\ debounce' = callDebounced(debounce, text)
    /\ writes' = 0
    /\ typed' = TRUE
    /\ UNCHANGED << API_URL, url, entries, mounted, dead, cache, inflight, prev, ticks >>

\* the timer of the mounted Search expires
TimerExpired ==
    /\ mounted
    /\ debounce.timer
    /\ debounce.left = 0
    /\ LET r == timerExpired(debounce, TRUE)
       IN  /\ debounce' = r.next
           /\ IF r.invoke
              THEN replace(r.args)
              ELSE UNCHANGED << url, entries, writes, cache, inflight, prev >>
    /\ UNCHANGED << API_URL, mounted, inputValue, dead, typed, ticks >>

\* a timer left by an unmounted Search expires
DeadTimerExpired(d) ==
    /\ d \in dead
    /\ d.left = 0
    /\ LET r == timerExpired(d, FALSE)
       IN  /\ dead' = dead \ {d}
           /\ IF r.invoke
              THEN replace(r.args)
              ELSE UNCHANGED << url, entries, writes, cache, inflight, prev >>
    /\ UNCHANGED << API_URL, mounted, inputValue, debounce, typed, ticks >>

\* the getUsers call in flight for k has come to the outcome r: the query
\* takes the data, or calls getUsers again, or goes into error
settle(k, r) ==
    LET observed == mounted /\ queryKey(params) = k
        c == IF ~r.settled THEN cache
             ELSE IF r.ok THEN [cache EXCEPT ![k] = setData(@, r.data)]
             ELSE IF shouldRetry(cache[k], observed)
             THEN [cache EXCEPT ![k].failureCount = @ + 1]
             ELSE [cache EXCEPT ![k] = setError(@, r.error)]
    IN  /\ cache' = c
        /\ inflight' =
             IF ~r.settled
             THEN [inflight EXCEPT ![k].attempts = @ + 1]
             ELSE IF ~r.ok /\ shouldRetry(cache[k], observed)
             THEN [inflight EXCEPT
                     ![k] = [getUsersRequest(k) EXCEPT !.calls = inflight[k].calls]]
             ELSE IF inflight[k].calls > 1
             THEN [inflight EXCEPT ![k].calls = @ - 1]
             ELSE [inflight EXCEPT ![k] = NoRequest]
        /\ prev' = IF mounted
                   THEN lastQueryWithDefinedData(prev, c[queryKey(params)])
                   ELSE prev

\* the endpoint answers the request of the getUsers call in flight for k
Respond(k, statusText, body) ==
    /\ inflight[k].active
    /\ ~inflight[k].threw
    /\ settle(k, getUsersResponse(inflight[k], statusText, body))
    /\ UNCHANGED << API_URL, url, entries, mounted, inputValue, debounce, dead,
                    writes, typed, ticks >>

\* the getUsers call in flight for k, which threw before its fetch, rejects
Throw(k) ==
    /\ inflight[k].active
    /\ inflight[k].threw
    /\ settle(k, getUsersThrew)
    /\ UNCHANGED << API_URL, url, entries, mounted, inputValue, debounce, dead,
                    writes, typed, ticks >>

\* the window regains focus: the observed query is fetched again when stale
WindowFocus ==
    /\ mounted
    /\ shouldFetch(cache[queryKey(params)])
    /\ cache' = observe(cache, queryKey(params))
    /\ inflight' = request(cache, inflight, params)
    /\ UNCHANGED << API_URL, url, entries, mounted, inputValue, debounce, dead, prev, writes,
                    typed, ticks >>

\* the page is left: Home and Search unmount, a running timer stays behind
Unmount ==
    /\ mounted
    /\ mounted' = FALSE
    /\ dead' = IF debounce.timer THEN dead \cup {debounce} ELSE dead
    /\ debounce' = NewDebounce
    /\ inputValue' = ""
    /\ prev' = NoPrev
    /\ typed' = FALSE
    /\ debounce.timer => Cardinality(dead) < MaxDead
    /\ UNCHANGED << API_URL, url, entries, cache, inflight, writes, ticks >>

\* the page is entered again: a new Search and a new observer
Mount ==
    /\ ~mounted
    /\ mounted' = TRUE
    /\ inputValue' = defaultValue(url)
    /\ debounce' = NewDebounce
    /\ cache' = observe(cache, queryKey(params))
    /\ inflight' = request(cache, inflight, params)
    /\ prev' = lastQueryWithDefinedData(NoPrev, cache[queryKey(params)])
    /\ UNCHANGED << API_URL, url, entries, dead, writes, typed, ticks >>

\* the running timers: setTimeout callbacks run when their time has come
timers == (IF debounce.timer THEN {debounce} ELSE {}) \cup dead

\* time passes, at most up to the next expiry of a timer
Tick(ms) ==
    /\ ticks < MaxTicks
    /\ ms > 0
    /\ \A d \in timers : ms <= d.left
    /\ ticks' = ticks + 1
    /\ debounce' = IF debounce.timer THEN elapse(debounce, ms) ELSE debounce
    /\ dead' = {elapse(d, ms) : d \in dead}
    /\ cache' = [k \in Texts |->
                    IF cache[k].hasData
                    THEN [cache[k] EXCEPT !.age = Min(staleTime, @ + ms)]
                    ELSE cache[k]]
    /\ UNCHANGED << API_URL, url, entries, mounted, inputValue, inflight, prev, writes, typed >>

Next ==
    \/ \E text \in Texts : Keystroke(text)
    \/ TimerExpired
    \/ \E d \in dead : DeadTimerExpired(d)
    \/ \E k \in Texts, statusText \in StatusTexts, body \in Bodies :
            Respond(k, statusText, body)
    \/ \E k \in Texts : Throw(k)
    \/ WindowFocus
    \/ Unmount
    \/ Mount
    \/ \E ms \in TickSteps \cup {d.left : d \in timers} : Tick(ms)

Spec == Init /\ [][Next]_vars

-----------------------------------------------------------------------------
(* The claims                                                              *)

\* the `search` parameter handleSearch is to leave in the URL for a text
target(text) == IF text # "" THEN text ELSE Absent

\* C1: once the user has entered a text and the 300 ms have passed without
\* further input, the URL has been written exactly once since, and its
\* `search` parameter is that text, or is absent for the empty text; until
\* then nothing is written, and the write is due no later than 300 ms after
\* the last input.
C1_WrittenOnceAfterDebounce ==
    (mounted /\ typed) =>
        IF debounce.timer
        THEN writes = 0 /\ debounce.left + debounce.sinceCall <= Wait
        ELSE writes = 1 /\ url.search = target(inputValue)

\* the text "zz" was entered, the debounce has run out, and the URL carries it
C1_Witness ==
    /\ mounted /\ typed /\ ~debounce.timer
    /\ inputValue = "zz" /\ writes = 1 /\ url.search = "zz"

\* C2: a URL write happens only when 300 ms have passed since the latest
\* keystroke, so never for a keystroke that another one followed within
\* 300 ms; it carries the value the input has then, the final one, and it
\* leaves no timer and no arguments behind for a later write.
C2_OnlyFinalValueWritten ==
    [][writes' > writes =>
            /\ debounce.sinceCall >= Wait
            /\ url'.search = target(inputValue)
            /\ ~debounce'.timer
            /\ debounce'.lastArgs = NoArgs]_vars

\* a keystroke arrived while the timer of an earlier one was running, that
\* timer has run out, and the URL has not been written
C2_Witness ==
    /\ mounted
    /\ debounce.timer /\ debounce.left = 0 /\ debounce.sinceCall < Wait
    /\ writes = 0
    /\ url.search # target(inputValue)

\* C3: once the debounce has run out after the last edit, the input's value
\* and the filter the page fetches with are the same value, the last one
\* entered, and the query of that filter is the one being fetched or shown.
C3_InputAndFilterConverge ==
    (mounted /\ typed /\ ~debounce.timer) =>
        /\ params = inputValue
        /\ cache[inputValue].fetching \/ cache[inputValue].status # "pending"
        /\ (inflight[inputValue].active /\ ~inflight[inputValue].threw) =>
                inflight[inputValue].nameParam = target(inputValue)

\* the user went from no filter to "zz"; the debounce has run out and the
\* request for "zz" is in flight
C3_Witness ==
    /\ mounted /\ typed /\ ~debounce.timer
    /\ inputValue = "zz" /\ params = "zz"
    /\ cache[""].hasData
    /\ inflight["zz"].active /\ inflight["zz"].nameParam = "zz"

\* C4: the timer of an unmounted Search writes nothing when it expires, a
\* Search in which nothing was typed writes nothing, and the one write a
\* Search has pending is that of the latest keystroke.
C4_PendingWriteDiscarded ==
    [][/\ Cardinality(dead') < Cardinality(dead) =>
                url' = url /\ writes' = writes
       /\ (~typed /\ ~typed') => url' = url /\ writes' = writes
       /\ debounce'.timer => debounce'.lastArgs = inputValue']_vars

\* the timer of an unmounted Search has run out, 300 ms after the last
\* keystroke, with a pending write that would change the URL
C4_Witness ==
    \E d \in dead :
        /\ d.left = 0 /\ d.sinceCall >= Wait
        /\ target(d.lastArgs) # url.search

\* C5: a getUsers call that gets to its fetch sends one request; whatever
\* the endpoint answers settles it: "OK" and a JSON body with the endpoint's
\* array as the value, any other status text with an error whose cause is
\* that text.  The query's data and error are what getUsers returned or
\* threw.
C5_GetUsersSingleAttempt ==
    \A k \in Texts :
        /\ (inflight[k].active /\ ~inflight[k].threw) =>
            /\ inflight[k].attempts = 1
            /\ \A statusText \in StatusTexts, body \in AllBodies :
                LET r == getUsersResponse(inflight[k], statusText, body)
                IN  /\ r.settled
                    /\ (statusText = "OK" /\ body = "json") =>
                            r.ok /\ r.data = Endpoint(target(k))
                    /\ statusText # "OK" =>
                            /\ ~r.ok
                            /\ r.error = [kind |-> "fetch", cause |-> statusText]
        /\ cache[k].hasData => cache[k].data = Endpoint(target(k))
        /\ (cache[k].status = "error" /\ API_URL # Absent) =>
                /\ cache[k].error.kind = "fetch"
                /\ cache[k].error.cause \in StatusTexts \ {"OK"}

\* the query of "zz" has failed with the endpoint's "Not Found" as cause,
\* and no request is left in flight for it
C5_Witness ==
    /\ cache["zz"].status = "error"
    /\ cache["zz"].error = [kind |-> "fetch", cause |-> "Not Found"]
    /\ ~inflight["zz"].active

\* a step in which the endpoint's answer to the fetch of the observed query
\* made getUsers throw
failedForCurrent ==
    /\ mounted /\ mounted'
    /\ params' = params
    /\ inflight[params].active
    /\ ~inflight[params].threw
    /\ cache'[params].failureCount > cache[params].failureCount

\* C6 as stated: whenever the endpoint answers the fetch for the current
\* filter with a status text other than "OK", the page renders the error
\* indicator, and neither the loading indicator nor rows.
C6_ErrorOnAnyFailure ==
    [][failedForCurrent => view' = [kind |-> "error", rows |-> << >>]]_vars

\* C6 as amended: when the endpoint has answered the fetch for the current
\* filter with a status text other than "OK" on the first call and on each
\* of the 3 retries, the page renders the error indicator, and neither the
\* loading indicator nor rows; and while the observed query is in error the
\* page renders the error indicator.
C6_ErrorAfterRetries ==
    [][/\ (failedForCurrent /\ cache[params].failureCount >= retry) =>
            /\ cache'[params].status = "error"
            /\ ~cache'[params].fetching
            /\ view' = [kind |-> "error", rows |-> << >>]
       /\ (mounted' /\ cache'[params'].status = "error") =>
            view' = [kind |-> "error", rows |-> << >>]]_vars

\* the fetch for the current filter "zz" failed four times while observed,
\* and the page renders the error indicator
C6_Witness ==
    /\ mounted /\ params = "zz"
    /\ cache["zz"].status = "error" /\ cache["zz"].failureCount = retry + 1
    /\ cache["zz"].error.kind = "fetch"
    /\ ~cache["zz"].fetching
    /\ view.kind = "error"

\* data written less than staleTime ago
fresh(q) == q.hasData /\ q.age < staleTime

\* C7: while less than 5 minutes have passed since a query's data was
\* written, nothing starts a request for its key, whether the observer turns
\* to it on mount or on a change of the filter or the window is focused:
\* the cached data stays, and is what the observer returns for that key.
C7_FreshDataReused ==
    [][\A k \in Texts :
          fresh(cache[k]) =>
            /\ ~inflight[k].active /\ ~inflight'[k].active
            /\ ~cache'[k].fetching
            /\ cache'[k].hasData /\ cache'[k].data = cache[k].data
            /\ (mounted' /\ params' = k) =>
                    /\ result'.data = cache[k].data
                    /\ ~result'.isPlaceholderData]_vars

\* Search was unmounted with a timer running and Home mounted again; the
\* data of the observed query is older than that timer, so it was in the
\* cache when the new observer asked for it, it is fresh, and no request
\* is in flight for it
C7_Witness ==
    /\ mounted /\ ~typed
    /\ fresh(cache[params])
    /\ ~inflight[params].active
    /\ \E d \in dead : cache[params].age > Wait - d.left

\* what Home renders for resolved data
shown(data) == Home([isLoading |-> FALSE, isError |-> FALSE,
                     hasData |-> TRUE, data |-> data])

\* C8: when the filter changes to one whose query has no data yet, the page
\* keeps rendering the data it rendered for the previous filter, not the
\* loading indicator, and goes on doing so while the new fetch is pending.
C8_PreviousResultStaysVisible ==
    [][/\ (/\ mounted /\ mounted'
           /\ params' # params
           /\ cache[params].hasData
           /\ ~cache'[params'].hasData) =>
                /\ result'.isPlaceholderData
                /\ view' = shown(cache[params].data)
       /\ (/\ mounted /\ mounted'
           /\ params' = params
           /\ result.isPlaceholderData
           /\ ~cache'[params].hasData
           /\ cache'[params].status = "pending") =>
                view' = view]_vars

\* the filter went from none to "zz": the fetch for "zz" is pending and the
\* page shows the two rows of the unfiltered list
C8_Witness ==
    /\ mounted /\ typed /\ params = "zz"
    /\ cache["zz"].fetching /\ ~cache["zz"].hasData
    /\ result.isPlaceholderData
    /\ view = [kind |-> "list", rows |-> rows(Directory)]

\* C9: for the data of the observed query and every combination of
\* isLoading and isError, Home renders one of the four outputs: the loading
\* indicator when isLoading, the error indicator when isError and not
\* isLoading, and otherwise the rows of non-empty data or the empty
\* indicator; only the list has rows.
C9_FourExclusiveOutputs ==
    \A l \in BOOLEAN, e \in BOOLEAN :
        LET r == [result EXCEPT !.isLoading = l, !.isError = e]
            v == Home(r)
        IN  /\ v.kind \in {"loading", "error", "list", "empty"}
            /\ l => v.kind = "loading"
            /\ (~l /\ e) => v.kind = "error"
            /\ (~l /\ ~e) =>
                    v.kind = IF r.hasData /\ Len(r.data) > 0
                             THEN "list" ELSE "empty"
            /\ v.kind = "list" => v.rows = rows(r.data)
            /\ v.kind # "list" => v.rows = << >>

\* a refetch of stale, non-empty data has failed: the page renders the error
\* indicator although there is data to list
C9_Witness ==
    /\ mounted
    /\ result.isError /\ ~result.isLoading
    /\ result.hasData /\ Len(result.data) > 0
    /\ view.kind = "error"

\* C10: when the input has been cleared, the debounce has run out and the
\* fetch without filter has resolved, the URL has no `search` parameter and
\* the page lists the unfiltered records, whatever filter was set before.
C10_RoundTrip ==
    (/\ mounted /\ typed /\ ~debounce.timer
     /\ inputValue = ""
     /\ cache[""].status = "success" /\ ~cache[""].fetching) =>
        /\ url.search = Absent
        /\ view = [kind |-> "list", rows |-> rows(Directory)]

\* the filter "zz" was fetched and resolved, the input was cleared, and the
\* page without `search` lists the unfiltered records
C10_Witness ==
    /\ mounted /\ typed /\ ~debounce.timer /\ writes = 1
    /\ inputValue = "" /\ url.search = Absent
    /\ cache["zz"].hasData /\ cache["zz"].data = << >>
    /\ cache[""].status = "success" /\ ~cache[""].fetching
    /\ view = [kind |-> "list", rows |-> rows(Directory)]

\* C11 as stated: on every render the value the input displays is the URL's
\* `search` parameter, the empty text when the parameter is absent.
C11_InputIsUrlSearch ==
    mounted => inputValue = (IF url.search = Absent THEN "" ELSE url.search)

\* C11: the request of the observed query carries the URL's `search`
\* parameter on every render (no `name` when it is absent); the input
\* displays that parameter (the empty text when it is absent) when Search
\* mounts and whenever no debounced write is pending, and while a write is
\* pending it displays the text that write is going to put into the URL.
C11_InputSeededFromUrl ==
    mounted =>
        /\ (inflight[params].active /\ ~inflight[params].threw) =>
                inflight[params].nameParam = url.search
        /\ ~debounce.timer =>
                inputValue = (IF url.search = Absent THEN "" ELSE url.search)
        /\ debounce.timer => inputValue = debounce.lastArgs

\* a keystroke is waiting for its debounced write: the input displays a text
\* the URL does not hold
C11_Witness ==
    /\ mounted
    /\ debounce.timer
    /\ inputValue = "zz"
    /\ url.search = Absent
    /\ params = ""

\* C12: at every moment at most one getUsers call is in flight for any one
\* query key, and a query is fetching exactly while that call is in flight:
\* an observer that turns to a query whose fetch is running joins that fetch.
C12_OneFetchPerKey ==
    \A k \in Texts :
        /\ inflight[k].calls <= 1
        /\ inflight[k].active <=> inflight[k].calls = 1
        /\ cache[k].fetching <=> inflight[k].active

\* the debounced write that turns the observer to the other filter is due
\* while the fetch for that filter, started earlier, is still in flight
C12_Witness ==
    /\ mounted
    /\ debounce.timer
    /\ debounce.left = 0
    /\ debounce.sinceCall >= Wait
    /\ debounce.lastArgs \in Texts
    /\ debounce.lastArgs # params
    /\ inflight[debounce.lastArgs].calls = 1
    /\ cache[debounce.lastArgs].fetching

\* C13: for every value of the URL's `search` parameter (a text, the empty
\* text, or no parameter), the GET request getUsers sends for the page of
\* that URL carries `name` equal to the value when it is non-empty and no
\* `name` otherwise; every request in flight is such a request.
C13_NameParamFromSearch ==
    /\ \A v \in Texts \cup {Absent} :
            LET req == getUsersRequest(Page([url EXCEPT !.search = v]))
            IN  /\ req.active
                /\ ~req.threw =>
                    req.nameParam = (IF v \in {"", Absent} THEN Absent ELSE v)
    /\ \A k \in Texts :
            (inflight[k].active /\ ~inflight[k].threw) =>
                inflight[k].nameParam = (IF k = "" THEN Absent ELSE k)
    /\ (mounted /\ inflight[params].active /\ ~inflight[params].threw) =>
            inflight[params].nameParam = url.search

\* the typed filter was written to the URL and the request for it, carrying
\* `name`, is in flight
C13_Witness ==
    /\ mounted /\ typed /\ writes = 1
    /\ url.search = "zz"
    /\ inflight["zz"].active
    /\ inflight["zz"].nameParam = "zz"

\* C14: no step changes the number of history entries: every URL write of
\* the search control replaces the current entry, so the number of entries
\* after any sequence of debounced writes is the number before them.
C14_HistoryLengthUnchanged == [][entries' = entries]_vars

\* the typed filter has been written to the URL by the debounced callback,
\* and the history still has its one entry
C14_Witness ==
    /\ mounted /\ typed /\ ~debounce.timer /\ writes = 1
    /\ inputValue = "zz"
    /\ url.search = "zz"
    /\ entries = 1

\* C15: when the fetch for the current filter has succeeded with N records,
\* the page renders N rows, the i-th keyed by the identifier of the i-th
\* record of the response and showing its name; with N = 0 it renders the
\* empty-state indicator, which is neither the loading nor the error one.
C15_OneRowPerRecord ==
    (mounted /\ cache[params].status = "success") =>
        LET response == Endpoint(IF url.search = Absent THEN Absent ELSE params)
            N == Len(response)
        IN  /\ cache[params].data = response
            /\ Len(view.rows) = N
            /\ \A i \in 1..N :
                    /\ view.rows[i].key = response[i].id
                    /\ view.rows[i].text = response[i].name
            /\ \A i, j \in 1..N : i # j => view.rows[i].key # view.rows[j].key
            /\ N > 0 => view.kind = "list"
            /\ N = 0 => view.kind = "empty" /\ view.kind \notin {"loading", "error"}

\* the fetch for the filter "zz", which matches no record, has succeeded and
\* the page renders the empty-state indicator without rows
C15_Witness ==
    /\ mounted
    /\ params = "zz"
    /\ cache["zz"].status = "success"
    /\ ~cache["zz"].fetching
    /\ cache["zz"].data = << >>
    /\ view = [kind |-> "empty", rows |-> << >>]

\* C16: when API_URL is not set, no getUsers call sends a request: each one
\* throws while it builds the URL, no query ever has data, and the observed
\* query is either fetching or in error with that failure; the page renders
\* it as the error indicator, exactly as it renders a failed fetch.
C16_UnconfiguredFailsBeforeFetch ==
    API_URL = Absent =>
        /\ \A k \in Texts :
                /\ inflight[k].attempts = 0
                /\ inflight[k].active => inflight[k].threw
                /\ ~cache[k].hasData
                /\ cache[k].status = "error" => cache[k].error.kind = "url"
        /\ mounted =>
                /\ cache[params].fetching \/ cache[params].status = "error"
                /\ cache[params].status = "error" =>
                    /\ view = [kind |-> "error", rows |-> << >>]
                    /\ view = Home(useGetUsers(
                                [cache[params] EXCEPT
                                    !.error = [kind |-> "fetch", cause |-> "Not Found"]],
                                prev))

\* API_URL is not set: getUsers has thrown on the first call and on each of
\* the retries without a request being sent, and the page renders the error
\* indicator
C16_Witness ==
    /\ API_URL = Absent
    /\ mounted
    /\ cache[params].status = "error"
    /\ cache[params].error.kind = "url"
    /\ cache[params].failureCount = retry + 1
    /\ \A k \in Texts : inflight[k].attempts = 0
    /\ view = [kind |-> "error", rows |-> << >>]

\* C17: no step changes the pathname or the URL parameter `page`: a
\* debounced write leaves the URL as it was at the time the timer fired,
\* but for `search`, which it sets to the text or deletes for the empty
\* text; and handleSearch does so for every URL and every text.
C17_OnlySearchWritten ==
    /\ \A u \in Urls, text \in Texts :
            /\ handleSearch(u, text).pathname = u.pathname
            /\ handleSearch(u, text).page = u.page
    /\ [][/\ url'.pathname = url.pathname
          /\ url'.page = url.page
          /\ (mounted /\ debounce.timer /\ ~debounce'.timer /\ mounted') =>
               url' = [pathname |-> url.pathname,
                       search |-> IF debounce.lastArgs # ""
                                  THEN debounce.lastArgs ELSE Absent,
                       page |-> url.page]]_vars

\* the input was cleared and the debounced write has deleted `search` from a
\* URL that also has `page`, which is still there
C17_Witness ==
    /\ mounted /\ typed /\ ~debounce.timer /\ writes = 1
    /\ inputValue = ""
    /\ url = [pathname |-> Pathname, search |-> Absent, page |-> "2"]

\* C18: in every state, and so also after an answer for an earlier filter
\* has arrived late, each query holds the endpoint's answer for its own
\* filter, and what the page has and lists for the current filter, when it
\* is not the placeholder, is the endpoint's answer for the current filter.
C18_LateResponseNotShown ==
    /\ \A k \in Texts :
            cache[k].hasData =>
                cache[k].data = Endpoint(IF k = "" THEN Absent ELSE k)
    /\ mounted =>
            LET r == result
                v == Home(r)
                response == Endpoint(IF url.search = Absent THEN Absent ELSE params)
            IN  (r.hasData /\ ~r.isPlaceholderData) =>
                    /\ r.data = response
                    /\ v.kind \in {"list", "empty"} => v.rows = rows(response)

\* the filter went from none to "zz" while the fetch without filter was in
\* flight; the answer for "zz" has arrived and is rendered, and the answer
\* to the fetch without filter is still to come
C18_Witness ==
    /\ mounted /\ typed /\ writes = 1
    /\ params = "zz"
    /\ cache["zz"].hasData /\ ~cache["zz"].fetching
    /\ inflight[""].active /\ ~inflight[""].threw
    /\ ~cache[""].hasData
    /\ view = [kind |-> "empty", rows |-> << >>]

====
